---- MODULE Spec2Model ----
(***************************************************************************)
(* Model of src/visualize.py: PressureFieldVisualizer.run and the methods  *)
(* it calls (load_data, create_volume, add_visualization_elements).        *)
(*                                                                         *)
(* Numbers.  Pressures are integers (one unit of pressure each).  The      *)
(* products with 0.708 and 0.5 are kept exactly, in thousandths of a unit: *)
(* fwhm_threshold holds 1000 times the program's value.  A quotient of the *)
(* normalisation is the pair <<numerator, denominator>>; a denominator of 0 *)
(* is what numpy's division by zero leaves in the array (nan for 0/0).     *)
(*                                                                         *)
(* An attribute that is None or not yet set is the empty tuple <<>>; one   *)
(* that is set to x is <<x>>.                                              *)
(***************************************************************************)
EXTENDS Integers, Sequences, FiniteSets, TLC

VARIABLES
    disk,              \* the data directory: config.npy, pressure_field.npy, voxel_*.npy
    config,            \* self.config
    pressure_field,    \* self.pressure_field
    remaining,         \* voxel files the glob loop has not yet visited
    writes,            \* per cell, how many times the loop has assigned it
    fwhm_threshold,    \* self.fwhm_threshold (thousandths)
    max_pressure,      \* self.max_pressure
    report,            \* what load_data prints of the FWHM analysis
    normalized_field,  \* normalized_field of create_volume (Fortran order)
    info_text,         \* the text overlay of add_visualization_elements
    pc                 \* position of run()

vars == <<disk, config, pressure_field, remaining, writes, fwhm_threshold,
          max_pressure, report, normalized_field, info_text, pc>>

----------------------------------------------------------------------------
(* Bounds of the model *)

MaxCells == 3

MaxVal == 5

MaxVoxelSize == 2

MaxFiles == 2

(* Constants of the program *)

FwhmRatioMilli == 708

FallbackRatioMilli == 500

AnchorMilli == 708

----------------------------------------------------------------------------
(* numpy arrays: [shape |-> <<nx,ny,nz>>, data |-> function on the cells] *)

Cells(s) == { <<x, y, z>> : x \in 0..(s[1]-1), y \in 0..(s[2]-1), z \in 0..(s[3]-1) }

Size(s) == s[1] * s[2] * s[3]

\* position of a cell in the flattened array, C (row-major) order, 0-based
CIndex(s, c) == (c[1] * s[2] + c[2]) * s[3] + c[3]

\* position of a cell in flatten('F'), 0-based
FIndex(s, c) == c[1] + s[1] * (c[2] + s[2] * c[3])

Zeros(s) == [shape |-> s, data |-> [c \in Cells(s) |-> 0]]

ArrayMax(a) == CHOOSE v \in {a.data[c] : c \in Cells(a.shape)} :
                   \A c \in Cells(a.shape) : a.data[c] <= v

ArrayMin(a) == CHOOSE v \in {a.data[c] : c \in Cells(a.shape)} :
                   \A c \in Cells(a.shape) : a.data[c] >= v

\* np.unravel_index(np.argmax(a), a.shape): the first maximum in C order
ArgMax(a) ==
    LET m == ArrayMax(a) IN
    CHOOSE c \in Cells(a.shape) :
        /\ a.data[c] = m
        /\ \A d \in Cells(a.shape) : a.data[d] = m => CIndex(a.shape, c) <= CIndex(a.shape, d)

CountNonzero(a) == Cardinality({c \in Cells(a.shape) : a.data[c] # 0})

----------------------------------------------------------------------------
(* The data directory *)

Shapes == { s \in [1..3 -> 1..MaxCells] : Size(s) <= MaxCells }

FieldValues == (-1)..MaxVal

ArraysOf(s) == [shape : {s}, data : [Cells(s) -> FieldValues]]

Configs == [shape : Shapes, voxel_size_mm : 1..MaxVoxelSize]

\* A file stem after split('_'): the parts; a part is its characters.
Voxel == <<"voxel">>

Stems == { <<Voxel, <<"0">>, <<"0">>, <<"0">> >>,
           <<Voxel, <<"1">>, <<"0">>, <<"0">> >>,
           <<Voxel, <<"0">>, <<"1">>, <<"0">> >>,
           <<Voxel, <<"0", "1">>, <<"0">>, <<"0">> >>,
           <<Voxel, <<"-", "1">>, <<"0">>, <<"0">> >>,
           <<Voxel, <<"0">>, <<"-", "2">>, <<"0">> >>,
           <<Voxel, <<"x">>, <<"0">>, <<"0">> >>,
           <<Voxel, <<"0">>, <<"0">> >> }

\* The pickled payload of a voxel file.
Payloads == { [kind |-> "voltage", ch1_voltage |-> <<1, 3>>, rms |-> 0],
              [kind |-> "rms",     ch1_voltage |-> <<>>,     rms |-> 2],
              [kind |-> "corrupt", ch1_voltage |-> <<>>,     rms |-> 0] }

VoxelFiles == [stem : Stems, payload : Payloads]

\* the directories of at most k voxel files; file names are unique in a directory
RECURSIVE DirsUpTo(_)
DirsUpTo(k) ==
    IF k = 0 THEN {{}}
    ELSE LET prev == DirsUpTo(k - 1) IN
         prev \cup UNION { { d \cup {f} :
                                f \in { g \in VoxelFiles : \A h \in d : h.stem # g.stem } } :
                            d \in prev }

VoxelDirs == DirsUpTo(MaxFiles)

\* data directories that hold pressure_field.npy, with or without config.npy,
\* and the empty directory
IsDenseDisk(d) ==
    \/ \E s \in Shapes : \E a \in ArraysOf(s) :
          d = [config |-> <<>>, dense |-> <<a>>, voxels |-> {}]
    \/ d = [config |-> <<>>, dense |-> <<>>, voxels |-> {}]
    \/ \E cfg \in Configs : \E a \in ArraysOf(cfg.shape) :
          d = [config |-> <<cfg>>, dense |-> <<a>>, voxels |-> {}]

\* data directories that hold voxel_*.npy files and no pressure_field.npy
IsVoxelDisk(d) ==
    \/ \E v \in VoxelDirs : d = [config |-> <<>>, dense |-> <<>>, voxels |-> v]
    \/ \E cfg \in Configs : \E v \in VoxelDirs :
          d = [config |-> <<cfg>>, dense |-> <<>>, voxels |-> v]

----------------------------------------------------------------------------
(* load_data: sparse reconstruction *)

Digits == {"0", "1", "2", "3", "4", "5", "6", "7", "8", "9"}

DigitVal(ch) == CASE ch = "0" -> 0 [] ch = "1" -> 1 [] ch = "2" -> 2 [] ch = "3" -> 3
                  [] ch = "4" -> 4 [] ch = "5" -> 5 [] ch = "6" -> 6 [] ch = "7" -> 7
                  [] ch = "8" -> 8 [] ch = "9" -> 9

RECURSIVE Base10(_)
Base10(ds) == IF ds = <<>> THEN 0
              ELSE 10 * Base10(SubSeq(ds, 1, Len(ds) - 1)) + DigitVal(ds[Len(ds)])

\* int(part): [ok |-> FALSE] stands for the ValueError
ParseInt(part) ==
    LET signed == part # <<>> /\ part[1] \in {"-", "+"}
        ds     == IF signed THEN Tail(part) ELSE part
    IN  IF ds # <<>> /\ \A i \in 1..Len(ds) : ds[i] \in Digits
        THEN [ok |-> TRUE,
              val |-> IF signed /\ part[1] = "-" THEN 0 - Base10(ds) ELSE Base10(ds)]
        ELSE [ok |-> FALSE, val |-> 0]

\* numpy's index on one axis: a negative index counts from the end;
\* [ok |-> FALSE] stands for the IndexError
AxisIndex(i, dim) ==
    IF 0 <= i /\ i < dim THEN [ok |-> TRUE, val |-> i]
    ELSE IF 0 - dim <= i /\ i < 0 THEN [ok |-> TRUE, val |-> i + dim]
    ELSE [ok |-> FALSE, val |-> 0]

RECURSIVE SeqSum(_)
SeqSum(v) == IF v = <<>> THEN 0 ELSE v[1] + SeqSum(Tail(v))

\* np.sqrt(np.mean((v1 - np.mean(v1))**2)), for the waveforms whose RMS is an
\* integer: with n = len(v1), n*(v1[i] - mean) = n*v1[i] - sum, so
\* rms^2 * n^3 = sum of (n*v1[i] - sum)^2
Rms(v1) ==
    LET n     == Len(v1)
        s     == SeqSum(v1)
        sumsq == SeqSum([i \in 1..n |-> (n * v1[i] - s) * (n * v1[i] - s)])
    IN  CHOOSE r \in 0..sumsq : r * r * n * n * n = sumsq

\* the value a readable payload gives its voxel
VoxelValue(data) ==
    IF data.kind = "voltage" THEN Rms(data.ch1_voltage) ELSE data.rms

\* self.pressure_field[ix, iy, iz] = value
StoreAdd(a, c, v) == [a EXCEPT !.data[c] = @ + v]

Store(a, c, v) == [a EXCEPT !.data[c] = v]

\* One pass of the loop body on file f: what the try block does to the array.
\* [hit |-> FALSE] when the body assigns nothing (too few parts, or an
\* exception that the bare except swallows).
Decode(f, s) ==
    LET parts == f.stem IN
    IF Len(parts) < 4 THEN [hit |-> FALSE, cell |-> <<0, 0, 0>>]
    ELSE LET ix == ParseInt(parts[2])
             iy == ParseInt(parts[3])
             iz == ParseInt(parts[4])
             jx == AxisIndex(ix.val, s[1])
             jy == AxisIndex(iy.val, s[2])
             jz == AxisIndex(iz.val, s[3])
         IN  IF /\ ix.ok /\ iy.ok /\ iz.ok
                /\ f.payload.kind # "corrupt"
                /\ jx.ok /\ jy.ok /\ jz.ok
             THEN [hit |-> TRUE, cell |-> <<jx.val, jy.val, jz.val>>]
             ELSE [hit |-> FALSE, cell |-> <<0, 0, 0>>]

----------------------------------------------------------------------------
(* load_data: focal point and FWHM analysis *)

\* max_pressure * 0.708, in thousandths
FwhmThresholdHalf(maxp) == maxp * FallbackRatioMilli

FwhmThreshold(maxp) == maxp * FwhmRatioMilli

\* np.where(self.pressure_field >= fwhm_threshold)
FwhmVoxelsStrict(a, thr) == { c \in Cells(a.shape) : a.data[c] * 1000 > thr }

FwhmVoxels(a, thr) == { c \in Cells(a.shape) : a.data[c] * 1000 >= thr }

AxisLo(region, ax) == CHOOSE m \in {c[ax] : c \in region} : \A c \in region : m <= c[ax]

AxisHi(region, ax) == CHOOSE m \in {c[ax] : c \in region} : \A c \in region : m >= c[ax]

\* (max_x - min_x + 1) * voxel_size
FwhmExtentSpan(lo, hi, voxel_size) == (hi - lo) * voxel_size

FwhmExtent(lo, hi, voxel_size) == (hi - lo + 1) * voxel_size

NoReport == [branch |-> "none", max_idx |-> <<0, 0, 0>>, fwhm_x |-> 0, fwhm_y |-> 0,
             fwhm_z |-> 0, volume |-> 0, count |-> 0]

\* lines 79-120: what is printed and what is stored, for array a
Analysis(a, cfg) ==
    LET maxp   == a.data[ArgMax(a)]
        thr    == FwhmThreshold(maxp)
        region == FwhmVoxels(a, thr)
    IN  IF Cardinality(region) > 0
        THEN LET fx == FwhmExtent(AxisLo(region, 1), AxisHi(region, 1), cfg.voxel_size_mm)
                 fy == FwhmExtent(AxisLo(region, 2), AxisHi(region, 2), cfg.voxel_size_mm)
                 fz == FwhmExtent(AxisLo(region, 3), AxisHi(region, 3), cfg.voxel_size_mm)
             IN  [fwhm_threshold |-> thr, max_pressure |-> maxp,
                  report |-> [branch |-> "fwhm", max_idx |-> ArgMax(a),
                              fwhm_x |-> fx, fwhm_y |-> fy, fwhm_z |-> fz,
                              volume |-> fx * fy * fz, count |-> Cardinality(region)]]
        ELSE [fwhm_threshold |-> maxp * FallbackRatioMilli, max_pressure |-> maxp,
              report |-> [NoReport EXCEPT !.branch = "fallback", !.max_idx = ArgMax(a)]]

----------------------------------------------------------------------------
(* create_volume: normalisation *)

Sentinel == <<-1, 10>>

Half == <<1, 2>>

\* self.pressure_field.flatten('F')
FlattenF(a) == [i \in 1..Size(a.shape) |->
                  a.data[CHOOSE c \in Cells(a.shape) : FIndex(a.shape, c) = i - 1]]

\* if self.pressure_field.max() > self.pressure_field.min()
DynamicRangeAlways(a) == ArrayMax(a) >= ArrayMin(a)

DynamicRange(a) == ArrayMax(a) > ArrayMin(a)

\* self.pressure_field[self.pressure_field > 0].min() if np.any(...) else 0
MinVal(a) ==
    LET pos == { v \in { a.data[c] : c \in Cells(a.shape) } : v > 0 }
    IN  IF pos # {} THEN CHOOSE v \in pos : \A w \in pos : v <= w ELSE 0

\* (flat_field - min_val) / (max_val - min_val), elementwise
QuotientNoOffset(v, min_val, max_val) == <<v, max_val - min_val>>

Quotient(v, min_val, max_val) == <<v - min_val, max_val - min_val>>

Normalize(a) ==
    LET flat_field == FlattenF(a) IN
    IF DynamicRange(a)
    THEN LET min_val == MinVal(a)
             max_val == ArrayMax(a)
         IN  [i \in 1..Len(flat_field) |->
                IF flat_field[i] > 0 THEN Quotient(flat_field[i], min_val, max_val)
                ELSE Sentinel]
    ELSE [i \in 1..Len(flat_field) |-> IF flat_field[i] > 0 THEN Half ELSE Sentinel]

----------------------------------------------------------------------------
(* run *)

\* run, lines 302-303: "if not self.load_data(): return"
AfterLoadAlways(ok) == "loaded"

AfterLoad(ok) == IF ok THEN "loaded" ELSE "stopped"

\* __init__, lines 13-16
Constructed ==
    /\ config = <<>>
    /\ pressure_field = <<>>
    /\ remaining = {}
    /\ writes = <<>>
    /\ fwhm_threshold = <<>>
    /\ max_pressure = <<>>
    /\ report = NoReport
    /\ normalized_field = <<>>
    /\ info_text = <<>>
    /\ pc = "start"

Init == IsDenseDisk(disk) /\ Constructed

InitReconstruct == IsVoxelDisk(disk) /\ Constructed

\* load_data, lines 31-34: config.npy is missing
LoadDataNoConfig ==
    /\ pc = "start"
    /\ disk.config = <<>>
    /\ pc' = AfterLoad(FALSE)
    /\ UNCHANGED <<disk, config, pressure_field, remaining, writes, fwhm_threshold,
                   max_pressure, report, normalized_field, info_text>>

\* load_data with pressure_field.npy present: lines 36-43 and 71-122
LoadDataDense ==
    /\ pc = "start"
    /\ disk.config # <<>>
    /\ disk.dense # <<>>
    /\ LET an == Analysis(disk.dense[1], disk.config[1]) IN
          /\ config' = disk.config
          /\ pressure_field' = disk.dense
          /\ fwhm_threshold' = <<an.fwhm_threshold>>
          /\ max_pressure' = <<an.max_pressure>>
          /\ report' = an.report
    /\ pc' = AfterLoad(TRUE)
    /\ UNCHANGED <<disk, remaining, writes, normalized_field, info_text>>

\* load_data without pressure_field.npy: lines 36-48, up to the glob loop
ReconstructBegin ==
    /\ pc = "start"
    /\ disk.config # <<>>
    /\ disk.dense = <<>>
    /\ config' = disk.config
    /\ pressure_field' = <<Zeros(disk.config[1].shape)>>
    /\ remaining' = disk.voxels
    /\ writes' = <<[c \in Cells(disk.config[1].shape) |-> 0]>>
    /\ pc' = "reconstructing"
    /\ UNCHANGED <<disk, fwhm_threshold, max_pressure, report, normalized_field, info_text>>

\* one iteration of the glob loop, lines 50-69; glob's order is not specified
ProcessVoxelFile(f) ==
    /\ pc = "reconstructing"
    /\ f \in remaining
    /\ remaining' = remaining \ {f}
    /\ LET d == Decode(f, config[1].shape) IN
          IF d.hit
          THEN /\ pressure_field' = <<Store(pressure_field[1], d.cell, VoxelValue(f.payload))>>
               /\ writes' = <<[writes[1] EXCEPT ![d.cell] = @ + 1]>>
          ELSE UNCHANGED <<pressure_field, writes>>
    /\ UNCHANGED <<disk, config, fwhm_threshold, max_pressure, report, normalized_field,
                   info_text, pc>>

\* the loop is exhausted: lines 71-122
ReconstructEnd ==
    /\ pc = "reconstructing"
    /\ remaining = {}
    /\ LET an == Analysis(pressure_field[1], config[1]) IN
          /\ fwhm_threshold' = <<an.fwhm_threshold>>
          /\ max_pressure' = <<an.max_pressure>>
          /\ report' = an.report
    /\ pc' = AfterLoad(TRUE)
    /\ UNCHANGED <<disk, config, pressure_field, remaining, writes, normalized_field,
                   info_text>>

\* create_volume, lines 124-171
CreateVolume ==
    /\ pc = "loaded"
    /\ normalized_field' = <<Normalize(pressure_field[1])>>
    /\ pc' = "volume"
    /\ UNCHANGED <<disk, config, pressure_field, remaining, writes, fwhm_threshold,
                   max_pressure, report, info_text>>

\* add_visualization_elements, lines 221-297
AddVisualizationElements ==
    /\ pc = "volume"
    /\ info_text' = <<[fwhm |-> IF fwhm_threshold # <<>> THEN fwhm_threshold[1] ELSE 0,
                       nonzero |-> CountNonzero(pressure_field[1]),
                       focal |-> ArgMax(pressure_field[1])]>>
    /\ pc' = "rendering"
    /\ UNCHANGED <<disk, config, pressure_field, remaining, writes, fwhm_threshold,
                   max_pressure, report, normalized_field>>

\* run() on a directory with pressure_field.npy
Next ==
    \/ LoadDataNoConfig
    \/ LoadDataDense
    \/ CreateVolume
    \/ AddVisualizationElements

Spec == Init /\ [][Next]_vars

\* run() on a directory of voxel files
NextReconstruct ==
    \/ LoadDataNoConfig
    \/ ReconstructBegin
    \/ \E f \in remaining : ProcessVoxelFile(f)
    \/ ReconstructEnd
    \/ CreateVolume
    \/ AddVisualizationElements

SpecReconstruct == InitReconstruct /\ [][NextReconstruct]_vars

----------------------------------------------------------------------------
(* Vocabulary of the properties *)

Loaded == pc \in {"loaded", "volume", "rendering"}

Normalized == pc \in {"volume", "rendering"}

\* the dense field, once load_data has built it
Field == pressure_field[1].data

FieldCells == Cells(pressure_field[1].shape)

\* the normalized value of the voxel at cell c
NormAt(c) == normalized_field[1][FIndex(pressure_field[1].shape, c) + 1]

IsSentinel(q) == q[2] # 0 /\ 10 * q[1] = (0 - 1) * q[2]

InUnit(q) == q[2] > 0 /\ 0 <= q[1] /\ q[1] <= q[2]

IsOne(q) == q[2] # 0 /\ q[1] = q[2]

IsHalf(q) == q[2] # 0 /\ 2 * q[1] = q[2]

DividedByZero(q) == q[2] = 0

AtAnchor(q) == q[2] > 0 /\ 1000 * q[1] >= AnchorMilli * q[2]

NonNegative == \A c \in FieldCells : Field[c] >= 0

Positive == { c \in FieldCells : Field[c] > 0 }

IsTop(c) == \A d \in FieldCells : Field[d] <= Field[c]

\* the minimum positive value is strictly below the maximum
Spread == \E c, d \in Positive : Field[c] < Field[d]

\* all measured voxels share one value
OneLevel == Positive # {} /\ \A c, d \in Positive : Field[c] = Field[d]

\* the voxels at or above 0.708 of the maximum
TrueRegion ==
    LET top == CHOOSE t \in FieldCells : IsTop(t) IN
    { c \in FieldCells : 1000 * Field[c] >= FwhmRatioMilli * Field[top] }

SetMax(S) == CHOOSE m \in S : \A x \in S : x <= m

SetMin(S) == CHOOSE m \in S : \A x \in S : m <= x

\* the records that the claims call usable: three integers, each in [0, dim)
InBounds(f, s) ==
    /\ Len(f.stem) >= 4
    /\ \A k \in 1..3 : /\ ParseInt(f.stem[k + 1]).ok
                       /\ 0 <= ParseInt(f.stem[k + 1]).val
                       /\ ParseInt(f.stem[k + 1]).val < s[k]

IndexOf(f) == <<ParseInt(f.stem[2]).val, ParseInt(f.stem[3]).val, ParseInt(f.stem[4]).val>>

----------------------------------------------------------------------------
(* The claims *)

\* C1 (as stated): for a field of non-negative values with a positive voxel,
\* every normalized value is the sentinel -0.1 or lies in [0,1], and the voxel
\* at max_index normalizes to 1.0.
C1_RangeAndPeak ==
    (Normalized /\ Positive # {} /\ NonNegative) =>
        /\ \A c \in FieldCells : IsSentinel(NormAt(c)) \/ InUnit(NormAt(c))
        /\ IsOne(NormAt(report.max_idx))

\* C2 (as stated): when the least positive value of a field of non-negative
\* values equals its maximum, every positive voxel normalizes to 0.5, every zero
\* voxel to -0.1, and nothing is divided by zero.
C2_DegenerateHalf ==
    (Normalized /\ OneLevel /\ NonNegative) =>
        \A c \in FieldCells :
            /\ Field[c] > 0 => IsHalf(NormAt(c))
            /\ Field[c] = 0 => IsSentinel(NormAt(c))
            /\ ~ DividedByZero(NormAt(c))

\* C3 (as stated): a record whose index has a component outside [0, dim), or
\* whose encoding is malformed, changes no cell: every cell the loop has
\* assigned is the index of a visited record that is well formed and in range.
C3_InvalidRecordsSkipped ==
    (writes # <<>>) =>
        \A c \in DOMAIN writes[1] :
            writes[1][c] > 0 =>
                \E f \in disk.voxels \ remaining :
                    InBounds(f, config[1].shape) /\ IndexOf(f) = c

\* C4 (as stated): after load_data the recorded fwhm_threshold is
\* max_pressure * 0.708 and every voxel counted in the region is at or above it.
C4_ThresholdAlwaysRatio ==
    Loaded =>
        /\ fwhm_threshold[1] = FwhmRatioMilli * max_pressure[1]
        /\ report.count = Cardinality({ c \in FieldCells : 1000 * Field[c] >= fwhm_threshold[1] })

\* C4 (amended): max_pressure is the maximum of the field; when it is not
\* negative the recorded fwhm_threshold is max_pressure * 0.708, the region is
\* not empty and its voxel count is the number of voxels at or above the recorded
\* threshold; when it is negative no voxel is counted and the recorded threshold
\* is max_pressure * 0.5.
C4_ThresholdRatioUnlessNegative ==
    Loaded =>
        /\ \E t \in FieldCells : IsTop(t) /\ Field[t] = max_pressure[1]
        /\ max_pressure[1] >= 0 =>
              /\ fwhm_threshold[1] = FwhmRatioMilli * max_pressure[1]
              /\ report.count > 0
              /\ report.count =
                    Cardinality({ c \in FieldCells : 1000 * Field[c] >= fwhm_threshold[1] })
        /\ max_pressure[1] < 0 =>
              /\ fwhm_threshold[1] = FallbackRatioMilli * max_pressure[1]
              /\ report.count = 0

\* C4 witness: a loaded field with a positive maximum, a voxel in the region
\* besides the maximum and a measured voxel below the threshold.
C4_Witness ==
    /\ Loaded
    /\ max_pressure[1] > 0
    /\ report.count >= 2
    /\ \E c \in Positive : 1000 * Field[c] < fwhm_threshold[1]

\* C5 (as stated): for a field that is the same positive value c everywhere the
\* normalized field is 0.5 everywhere, the recorded threshold is the fallback
\* c * 0.5 and the region is the whole field.
C5_FlatFallback ==
    (Normalized /\ OneLevel /\ Positive = FieldCells) =>
        /\ \A c \in FieldCells : IsHalf(NormAt(c))
        /\ fwhm_threshold[1] = FallbackRatioMilli * max_pressure[1]
        /\ report.count = Cardinality(FieldCells)

\* C5 (amended): for a field that is the same positive value c everywhere the
\* normalized field is 0.5 everywhere (no sentinel), the region is the whole
\* field, and the recorded threshold is c * 0.708: the fallback is not taken.
C5_FlatRatio ==
    (Normalized /\ OneLevel /\ Positive = FieldCells) =>
        /\ \A c \in FieldCells : IsHalf(NormAt(c)) /\ ~ IsSentinel(NormAt(c))
        /\ \A c \in FieldCells : fwhm_threshold[1] = FwhmRatioMilli * Field[c]
        /\ report.branch = "fwhm"
        /\ report.count = Cardinality(FieldCells)

\* C5 witness: the field that is 2 at each of several voxels, normalized.
C5_Witness ==
    /\ Normalized
    /\ Cardinality(FieldCells) >= 2
    /\ \A c \in FieldCells : Field[c] = 2

\* C6 (as stated): for an all-zero field the normalized field is -0.1
\* everywhere, the region holds no voxel and the fallback branch is taken.
C6_ZeroFallback ==
    (Normalized /\ \A c \in FieldCells : Field[c] = 0) =>
        /\ \A c \in FieldCells : IsSentinel(NormAt(c))
        /\ report.count = 0
        /\ report.branch = "fallback"

\* C6 (amended): for an all-zero field the normalized field is -0.1 everywhere,
\* the threshold is 0, the region is the whole field (every voxel is >= 0) and
\* the fallback branch is not taken.
C6_ZeroWholeRegion ==
    (Loaded /\ \A c \in FieldCells : Field[c] = 0) =>
        /\ Normalized => \A c \in FieldCells : IsSentinel(NormAt(c))
        /\ fwhm_threshold[1] = 0
        /\ report.count = Cardinality(FieldCells)
        /\ report.branch = "fwhm"

\* C6 witness: an all-zero field of several voxels has gone through load_data
\* and create_volume.
C6_Witness ==
    /\ Normalized
    /\ Cardinality(FieldCells) >= 2
    /\ \A c \in FieldCells : Field[c] = 0

\* C7: when the region is not empty, each reported dimension is
\* (max index - min index + 1) * voxel_size_mm over the region's voxels on that
\* axis, hence at least one voxel_size_mm; the volume is the product of the
\* three; the voxel count is the number of voxels at or above the threshold.
C7_InclusiveExtent ==
    (Loaded /\ TrueRegion # {}) =>
        LET xs == { c[1] : c \in TrueRegion }
            ys == { c[2] : c \in TrueRegion }
            zs == { c[3] : c \in TrueRegion }
            mm == config[1].voxel_size_mm
        IN  /\ report.fwhm_x = (SetMax(xs) - SetMin(xs) + 1) * mm
            /\ report.fwhm_y = (SetMax(ys) - SetMin(ys) + 1) * mm
            /\ report.fwhm_z = (SetMax(zs) - SetMin(zs) + 1) * mm
            /\ report.fwhm_x >= mm /\ report.fwhm_y >= mm /\ report.fwhm_z >= mm
            /\ report.volume = report.fwhm_x * report.fwhm_y * report.fwhm_z
            /\ report.count = Cardinality(TrueRegion)

\* C7 witness: a region of two voxels that spans three along one axis, on a
\* grid whose voxels are 2 mm.
C7_Witness ==
    /\ Loaded
    /\ config[1].voxel_size_mm = 2
    /\ report.count = 2
    /\ report.fwhm_x + report.fwhm_y + report.fwhm_z = 6 + 2 + 2

\* C8: without config.npy, run stops at load_data: config and pressure_field
\* stay unset and neither create_volume nor add_visualization_elements runs;
\* no field is built or normalized while config is unset.
C8_NoConfigStops ==
    /\ disk.config = <<>> =>
          /\ pc \in {"start", "stopped"}
          /\ config = <<>> /\ pressure_field = <<>>
          /\ normalized_field = <<>> /\ info_text = <<>>
    /\ (pressure_field # <<>> \/ normalized_field # <<>>) => config # <<>>
    /\ pc = "stopped" => disk.config = <<>>

\* C8 witness: run has returned on a directory that holds pressure_field.npy
\* and no config.npy.
C8_Witness == pc = "stopped" /\ disk.dense # <<>>

\* C9 (as stated): distinct records target distinct cells: in a directory whose
\* records all carry three integers in range, each cell is assigned at most once.
C9_WrittenOnce ==
    (writes # <<>> /\ \A f \in disk.voxels : InBounds(f, config[1].shape)) =>
        \A c \in DOMAIN writes[1] : writes[1][c] <= 1

\* C9 (amended): after the loop a cell that no record decodes to is 0 and any
\* other cell holds the value of one of the records that decode to it; so the
\* field is the same for every order when no two records decode to one cell,
\* and otherwise the record visited last decides.
C9_OrderFreeWhenDisjoint ==
    (Loaded /\ writes # <<>>) =>
        \A c \in FieldCells :
            LET W == { f \in disk.voxels : Decode(f, config[1].shape).hit
                                           /\ Decode(f, config[1].shape).cell = c }
            IN  /\ W = {} => Field[c] = 0
                /\ W # {} => Field[c] \in { VoxelValue(f.payload) : f \in W }
                /\ writes[1][c] = Cardinality(W)

\* C9 witness: two records were written to two different cells.
C9_Witness ==
    /\ Loaded /\ writes # <<>>
    /\ \A c \in FieldCells : writes[1][c] <= 1
    /\ Cardinality({ c \in FieldCells : writes[1][c] = 1 /\ Field[c] > 0 }) = 2

\* C10: for a non-negative field whose least positive value is below its
\* maximum, a voxel whose normalized value is at least 0.708 has a raw value of
\* at least max_pressure * 0.708.
C10_EmphasizedInsideRegion ==
    (Normalized /\ Spread /\ NonNegative) =>
        \A c \in FieldCells :
            AtAnchor(NormAt(c)) => 1000 * Field[c] >= FwhmRatioMilli * max_pressure[1]

\* C10 witness: a voxel other than the maximum is emphasized.
C10_Witness ==
    /\ Normalized /\ Spread /\ NonNegative
    /\ \E c \in FieldCells : AtAnchor(NormAt(c)) /\ ~ IsTop(c)

====
